---- MODULE Spec2Model ----
(***************************************************************************)
(* Model of src/district.py: the price / geocode / district / combine      *)
(* pipeline run by main(), with the two on-disk caches (data/prices.json   *)
(* and data/coordinates.json) carried from one run to the next.            *)
(*                                                                         *)
(* A DataFrame is a sequence of row records in row order.  A frame built   *)
(* from no building at all (pd.DataFrame(), or read_json of "{}") has no   *)
(* columns, so selecting or joining on 'buildingaddress' raises KeyError;  *)
(* a price frame therefore has its columns exactly when it has a row.      *)
(* A null cell (NaN / JSON null) is the value NaN; coordinates are kept as *)
(* decimal strings because the code only tests them with notna().          *)
(***************************************************************************)
EXTENDS Integers, Sequences, FiniteSets, TLC

VARIABLES
    pricesFile,      \* data/prices.json: [exists, rows]
    coordsFile,      \* data/coordinates.json: [exists, rows], keyed by buildingaddress
    pc,              \* position of main()
    err,             \* the exception that ended the run, "" when none
    links,           \* len(neighbourhood_links)
    i,               \* number of links the for loop has taken
    page,            \* the neighbourhood page handled by the last iteration
    prices_df,       \* main.prices_df / get_prices.prices_df
    coordinates_df,  \* main.coordinates_df
    result_df,       \* main.result_df
    httpRequests,    \* session.get calls issued by this run
    queried,         \* addresses passed to gmaps.geocode by this run, in call order
    noMatch,         \* addresses for which a geocode call of this run returned []
    failedBefore     \* noMatch of the run before this one

vars == <<pricesFile, coordsFile, pc, err, links, i, page, prices_df,
          coordinates_df, result_df, httpRequests, queried, noMatch, failedBefore>>

----------------------------------------------------------------------------
(* Bounds and input domains *)

MaxLinks == 2
MaxRows == 2

NaN == "NaN"
Addr == {"1 Queen's Road", "8 Nathan Road"}
Region == {"Central", "Atlantis"}
RegionOf == [a \in Addr |-> IF a = "1 Queen's Road" THEN "Central" ELSE "Atlantis"]

\* medianpredprice as scraped: a number, or a value int() rejects
Price == {[numeric |-> TRUE, value |-> 6543210], [numeric |-> FALSE, value |-> 0]}
\* colour as scraped, already cut at its commas: "10,200,30" and "10,200"
Colour == {<<10, 200, 30>>, <<10, 200>>}

SeqsUpTo(S, n) == UNION {[1..k -> S] : k \in 0..n}

Buildings ==
    [buildingaddress : Addr, region : Region, medianpredprice : Price, colour : Colour]

\* what the site lists: each address lies in one region, colours are well formed
SiteBuildings ==
    {b \in Buildings : b.region = RegionOf[b.buildingaddress] /\ Len(b.colour) = 3}

LatHK == "22.3"
LngHK == "114.2"

NoFile == [exists |-> FALSE, rows |-> <<>>]
File(rows) == [exists |-> TRUE, rows |-> rows]

Index(df) == {df[k].buildingaddress : k \in DOMAIN df}
IsUnique(df) == \A j, k \in DOMAIN df : df[j].buildingaddress = df[k].buildingaddress => j = k

NoPage == [outcome |-> "none", buildings |-> <<>>]

----------------------------------------------------------------------------
(* get_prices *)

\* lines 18-20 without the early return: the site is scraped although the file exists
ReadPricesCacheThenFetch ==
    /\ pc = "get_prices"
    /\ pricesFile.exists
    /\ pc' = "fetch_index"
    /\ UNCHANGED <<pricesFile, coordsFile, err, links, i, page, prices_df, coordinates_df,
                   result_df, httpRequests, queried, noMatch, failedBefore>>

\* lines 18-20: prices.json exists, return it
ReadPricesCache ==
    /\ pc = "get_prices"
    /\ pricesFile.exists
    /\ prices_df' = pricesFile.rows
    /\ pc' = "save_prices"
    /\ UNCHANGED <<pricesFile, coordsFile, err, links, i, page, coordinates_df,
                   result_df, httpRequests, queried, noMatch, failedBefore>>

\* lines 21-22: FileNotFoundError is swallowed
PricesCacheMissing ==
    /\ pc = "get_prices"
    /\ ~pricesFile.exists
    /\ pc' = "fetch_index"
    /\ UNCHANGED <<pricesFile, coordsFile, err, links, i, page, prices_df, coordinates_df,
                   result_df, httpRequests, queried, noMatch, failedBefore>>

\* lines 24-28: the index page; an unreachable index raises out of main
FetchIndex ==
    /\ pc = "fetch_index"
    /\ httpRequests' = httpRequests + 1
    /\ \/ /\ \E n \in 0..MaxLinks : links' = n
          /\ i' = 0
          /\ prices_df' = <<>>
          /\ pc' = "loop"
          /\ err' = err
       \/ /\ pc' = "raised"
          /\ err' = "ConnectionError"
          /\ UNCHANGED <<links, i, prices_df>>
    /\ UNCHANGED <<pricesFile, coordsFile, page, coordinates_df, result_df,
                   queried, noMatch, failedBefore>>

PageOutcomes == {"connection_error", "non200", "no_data_block", "statusCode", "ok"}

\* what one session.get(base_url + neighbourhood_link) can bring
PageResponses ==
    {[outcome |-> "ok", buildings |-> bs] : bs \in SeqsUpTo(SiteBuildings, MaxRows)}
    \cup {[outcome |-> o, buildings |-> <<>>] : o \in PageOutcomes \ {"ok"}}

\* lines 31 and 34: the two conditions under which the loop body continues
Skipped(p) == p.outcome \in {"non200", "statusCode"}

\* lines 30-33 without the status check of line 31: a non-200 page has no data block
RaisesOnNon200(p) ==
    IF p.outcome = "connection_error" THEN "ConnectionError"
    ELSE IF p.outcome \in {"no_data_block", "non200"} THEN "ParseError"
    ELSE ""

\* lines 30 and 33: session.get raising, or no parsable __NEXT_DATA__ block
Raises(p) ==
    IF p.outcome = "connection_error" THEN "ConnectionError"
    ELSE IF p.outcome = "no_data_block" THEN "ParseError"
    ELSE ""

\* lines 29-35: one iteration of the for loop
FetchPage ==
    /\ pc = "loop"
    /\ i < links
    /\ \E p \in PageResponses :
         /\ Len(prices_df) + Len(p.buildings) <= MaxRows
         /\ page' = p
         /\ httpRequests' = httpRequests + 1
         /\ IF Raises(p) # ""
              THEN /\ pc' = "raised"
                   /\ err' = Raises(p)
                   /\ UNCHANGED <<i, prices_df>>
              ELSE /\ i' = i + 1
                   /\ prices_df' = IF Skipped(p) THEN prices_df ELSE prices_df \o p.buildings
                   /\ UNCHANGED <<pc, err>>
    /\ UNCHANGED <<pricesFile, coordsFile, links, coordinates_df, result_df,
                   queried, noMatch, failedBefore>>

\* line 36
ReturnPrices ==
    /\ pc = "loop"
    /\ i = links
    /\ pc' = "save_prices"
    /\ UNCHANGED <<pricesFile, coordsFile, err, links, i, page, prices_df, coordinates_df,
                   result_df, httpRequests, queried, noMatch, failedBefore>>

\* line 112: prices_df.to_json('./data/prices.json')
SavePrices ==
    /\ pc = "save_prices"
    /\ pricesFile' = File(prices_df)
    /\ pc' = "get_coordinates"
    /\ UNCHANGED <<coordsFile, err, links, i, page, prices_df, coordinates_df,
                   result_df, httpRequests, queried, noMatch, failedBefore>>

----------------------------------------------------------------------------
(* get_coordinates *)

GeocodeResults == {"match", "zero_results", "error"}

\* lines 40-43: the nested get_coordinates(building); geocode_result is what
\* gmaps.geocode returned, [] when the service found no match
get_coordinates(geocode_result) ==
    IF geocode_result = "zero_results"
      THEN [lat |-> "0", lng |-> "0"]
      ELSE [lat |-> LatHK, lng |-> LngHK]

\* lines 45-48: coordinates.json, or an empty frame with columns lat, lng
LoadCoordinates == IF coordsFile.exists THEN coordsFile.rows ELSE <<>>

\* line 50 without the isin() mask: every address is fetched again
BuildingsToGetAll(buildingaddress, df) == buildingaddress

\* line 50: buildingaddress[~buildingaddress.isin(coordinates_df.index)]
BuildingsToGet(buildingaddress, df) ==
    SelectSeq(buildingaddress, LAMBDA a : a \notin Index(df))

\* line 52: one new row per element of buildings_to_get, indexed by it
NewRows(buildings_to_get, geo) ==
    [k \in 1..Len(buildings_to_get) |->
        [buildingaddress |-> buildings_to_get[k],
         lat |-> get_coordinates(geo[k]).lat,
         lng |-> get_coordinates(geo[k]).lng]]

\* line 53: coordinates_df[coordinates_df['lat'].notna()]
DropNa(df) == SelectSeq(df, LAMBDA r : r.lat # NaN)

Column(df) == [k \in 1..Len(df) |-> df[k].buildingaddress]

FirstError(geo) ==
    IF \E k \in DOMAIN geo : geo[k] = "error"
      THEN CHOOSE k \in DOMAIN geo : geo[k] = "error" /\ \A j \in 1..(k - 1) : geo[j] # "error"
      ELSE 0

\* line 114 with lines 38-54: the call get_coordinates(prices_df['buildingaddress'])
GetCoordinates ==
    /\ pc = "get_coordinates"
    /\ IF prices_df = <<>>
         THEN \* prices_df has no column 'buildingaddress'
              /\ pc' = "raised"
              /\ err' = "KeyError"
              /\ UNCHANGED <<coordinates_df, queried, noMatch>>
         ELSE LET cache == LoadCoordinates
                  buildings_to_get == BuildingsToGet(Column(prices_df), cache)
              IN  IF buildings_to_get = <<>>
                    THEN \* line 51
                         /\ coordinates_df' = cache
                         /\ pc' = "save_coordinates"
                         /\ UNCHANGED <<err, queried, noMatch>>
                    ELSE \E geo \in [1..Len(buildings_to_get) -> GeocodeResults] :
                           LET e == FirstError(geo) IN
                           IF e # 0
                             THEN \* gmaps.geocode raised at the e-th call
                                  /\ queried' = SubSeq(buildings_to_get, 1, e)
                                  /\ noMatch' = {buildings_to_get[k] : k \in
                                                   {j \in 1..(e - 1) : geo[j] = "zero_results"}}
                                  /\ pc' = "raised"
                                  /\ err' = "ApiError"
                                  /\ UNCHANGED coordinates_df
                             ELSE /\ queried' = buildings_to_get
                                  /\ noMatch' = {buildings_to_get[k] : k \in
                                                   {j \in DOMAIN geo : geo[j] = "zero_results"}}
                                  /\ coordinates_df' =
                                       DropNa(cache \o NewRows(buildings_to_get, geo))
                                  /\ pc' = "save_coordinates"
                                  /\ UNCHANGED err
    /\ UNCHANGED <<pricesFile, coordsFile, links, i, page, prices_df, result_df,
                   httpRequests, failedBefore>>

\* line 115: coordinates_df.to_json(..., orient='index'), which refuses a
\* frame whose index holds a label twice
SaveCoordinates ==
    /\ pc = "save_coordinates"
    /\ IF IsUnique(coordinates_df)
         THEN /\ coordsFile' = File(coordinates_df)
              /\ pc' = "combine"
              /\ UNCHANGED err
         ELSE /\ pc' = "raised"
              /\ err' = "ValueError"
              /\ UNCHANGED coordsFile
    /\ UNCHANGED <<pricesFile, links, i, page, prices_df, coordinates_df, result_df,
                   httpRequests, queried, noMatch, failedBefore>>

----------------------------------------------------------------------------
(* get_districts and combine_and_format_data *)

\* data/districts.json: district -> list of regions
districts_json ==
    <<[district |-> "Central and Western", regions |-> <<"Central", "Sheung Wan">>],
      [district |-> "Yau Tsim Mong", regions |-> <<"Tsim Sha Tsui">>]>>

RECURSIVE Explode(_)
Explode(rows) ==
    IF rows = <<>> THEN <<>>
    ELSE [k \in 1..Len(Head(rows).regions) |->
            [regions |-> Head(rows).regions[k], district |-> Head(rows).district]]
         \o Explode(Tail(rows))

\* lines 57-60: one row per region, indexed by region
get_districts == Explode(districts_json)

RECURSIVE ConcatMap(_, _)
ConcatMap(F(_), s) == IF s = <<>> THEN <<>> ELSE F(Head(s)) \o ConcatMap(F, Tail(s))

\* line 63: prices_df.join(coordinates_df, on='buildingaddress', how='inner')
JoinCoordinates(prices, coordinates) ==
    LET Matches(p) ==
          LET hits == SelectSeq(coordinates, LAMBDA c : c.buildingaddress = p.buildingaddress)
          IN  [k \in 1..Len(hits) |->
                 [buildingaddress |-> p.buildingaddress, region |-> p.region,
                  medianpredprice |-> p.medianpredprice, colour |-> p.colour,
                  lat |-> hits[k].lat, lng |-> hits[k].lng]]
    IN  ConcatMap(Matches, prices)

\* line 64 as an inner join: rows of an unmapped region are dropped
JoinDistrictsInner(rows, district_df) ==
    LET Matches(r) ==
          LET hits == SelectSeq(district_df, LAMBDA d : d.regions = r.region)
          IN  [k \in 1..Len(hits) |->
                 [buildingaddress |-> r.buildingaddress, region |-> r.region,
                  medianpredprice |-> r.medianpredprice, colour |-> r.colour,
                  lat |-> r.lat, lng |-> r.lng, district |-> hits[k].district]]
    IN  ConcatMap(Matches, rows)

\* line 64: result_df.join(district_df, on='region'), a left join
JoinDistricts(rows, district_df) ==
    LET Matches(r) ==
          LET hits == SelectSeq(district_df, LAMBDA d : d.regions = r.region)
          IN  IF hits = <<>>
                THEN <<[buildingaddress |-> r.buildingaddress, region |-> r.region,
                        medianpredprice |-> r.medianpredprice, colour |-> r.colour,
                        lat |-> r.lat, lng |-> r.lng, district |-> NaN]>>
                ELSE [k \in 1..Len(hits) |->
                        [buildingaddress |-> r.buildingaddress, region |-> r.region,
                         medianpredprice |-> r.medianpredprice, colour |-> r.colour,
                         lat |-> r.lat, lng |-> r.lng, district |-> hits[k].district]]
    IN  ConcatMap(Matches, rows)

\* line 68: f'{x:,d}', as the groups the commas separate
RECURSIVE Thousands(_)
Thousands(x) == IF x < 1000 THEN <<x>> ELSE Append(Thousands(x \div 1000), x % 1000)

\* line 69: str.split(',', expand=True) has as many columns as the longest row
SplitWidth(rows) ==
    IF rows = <<>> THEN 0
    ELSE CHOOSE w \in {Len(rows[k].colour) : k \in DOMAIN rows} :
           \A k \in DOMAIN rows : Len(rows[k].colour) <= w

\* lines 63-77: "" when the function returns, else the exception it raises
CombineError(prices, coordinates) ==
    LET joined == JoinDistricts(JoinCoordinates(prices, coordinates), get_districts) IN
    IF prices = <<>> THEN "KeyError"                       \* line 63, no join column
    ELSE IF \E k \in DOMAIN joined : ~joined[k].medianpredprice.numeric
      THEN "ValueError"                                     \* line 67
    ELSE IF SplitWidth(joined) # 3 \/ \E k \in DOMAIN joined : Len(joined[k].colour) # 3
      THEN "ValueError"                                     \* line 69
    ELSE ""

\* lines 63-77: the frame combine_and_format_data returns
combine_and_format_data(prices, coordinates, district_df) ==
    LET joined == JoinDistricts(JoinCoordinates(prices, coordinates), district_df) IN
    [k \in 1..Len(joined) |->
        [buildingaddress |-> joined[k].buildingaddress,
         region |-> joined[k].region,
         district |-> joined[k].district,
         medianpredprice |-> joined[k].medianpredprice.value,
         medianpredprice_formatted |-> Thousands(joined[k].medianpredprice.value),
         lat |-> joined[k].lat,
         lng |-> joined[k].lng,
         r |-> joined[k].colour[1],
         g |-> joined[k].colour[2],
         b |-> joined[k].colour[3]]]

\* lines 117-119
Combine ==
    /\ pc = "combine"
    /\ IF CombineError(prices_df, coordinates_df) = ""
         THEN /\ result_df' = combine_and_format_data(prices_df, coordinates_df, get_districts)
              /\ pc' = "visualize"
              /\ UNCHANGED err
         ELSE /\ pc' = "raised"
              /\ err' = CombineError(prices_df, coordinates_df)
              /\ UNCHANGED result_df
    /\ UNCHANGED <<pricesFile, coordsFile, links, i, page, prices_df, coordinates_df,
                   httpRequests, queried, noMatch, failedBefore>>

\* line 120: visualize(result_df) writes district.html
Visualize ==
    /\ pc = "visualize"
    /\ pc' = "done"
    /\ UNCHANGED <<pricesFile, coordsFile, err, links, i, page, prices_df, coordinates_df,
                   result_df, httpRequests, queried, noMatch, failedBefore>>

\* lines 122-123: the script is started again; only the two files survive
NextRun ==
    /\ pc \in {"done", "raised"}
    /\ pc' = "get_prices"
    /\ err' = ""
    /\ links' = 0
    /\ i' = 0
    /\ page' = NoPage
    /\ prices_df' = <<>>
    /\ coordinates_df' = <<>>
    /\ result_df' = <<>>
    /\ httpRequests' = 0
    /\ queried' = <<>>
    /\ noMatch' = {}
    /\ failedBefore' = noMatch
    /\ UNCHANGED <<pricesFile, coordsFile>>

----------------------------------------------------------------------------
(* Specifications *)

RunStart ==
    /\ pc = "get_prices"
    /\ err = ""
    /\ links = 0
    /\ i = 0
    /\ page = NoPage
    /\ prices_df = <<>>
    /\ coordinates_df = <<>>
    /\ result_df = <<>>
    /\ httpRequests = 0
    /\ queried = <<>>
    /\ noMatch = {}
    /\ failedBefore = {}

PriceFiles == {NoFile} \cup {File(t) : t \in SeqsUpTo(SiteBuildings, MaxRows)}

CoordRows(pairs) == {[buildingaddress |-> a, lat |-> p.lat, lng |-> p.lng] : a \in Addr, p \in pairs}

CoordTables(pairs) ==
    {t \in SeqsUpTo(CoordRows(pairs), Cardinality(Addr)) : IsUnique(t)}

\* the rows main() can have written: a located address or the (0, 0) pair
WrittenPairs == {get_coordinates(g) : g \in GeocodeResults \ {"error"}}

\* any rows a coordinates.json can hold: a cell may also be null
AnyPairs == WrittenPairs \cup [lat : {NaN, LatHK}, lng : {NaN, LngHK}]

\* main() started with the files earlier runs have left
Init ==
    /\ RunStart
    /\ pricesFile \in PriceFiles
    /\ coordsFile \in {NoFile} \cup {File(t) : t \in CoordTables(WrittenPairs)}

Next ==
    \/ ReadPricesCache
    \/ PricesCacheMissing
    \/ FetchIndex
    \/ FetchPage
    \/ ReturnPrices
    \/ SavePrices
    \/ GetCoordinates
    \/ SaveCoordinates
    \/ Combine
    \/ Visualize
    \/ NextRun

Spec == Init /\ [][Next]_vars

\* main() started with a coordinates.json of any content
InitAnyCache ==
    /\ RunStart
    /\ pricesFile \in PriceFiles
    /\ coordsFile \in {NoFile} \cup {File(t) : t \in CoordTables(AnyPairs)}

SpecAnyCache == InitAnyCache /\ [][Next]_vars

\* combine_and_format_data alone, applied to any pair of frames
InitCombine ==
    /\ pc = "combine"
    /\ err = ""
    /\ links = 0
    /\ i = 0
    /\ page = NoPage
    /\ result_df = <<>>
    /\ httpRequests = 0
    /\ queried = <<>>
    /\ noMatch = {}
    /\ failedBefore = {}
    /\ pricesFile = NoFile
    /\ coordsFile = NoFile
    /\ prices_df \in SeqsUpTo(Buildings, MaxRows)
    /\ coordinates_df \in CoordTables(WrittenPairs)

SpecCombine == InitCombine /\ [][Combine]_vars

----------------------------------------------------------------------------
(* Properties *)

Range(s) == {s[k] : k \in DOMAIN s}
Count(a, s) == Cardinality({k \in DOMAIN s : s[k] = a})

\* C1: an address whose geocode query of this run returned no match is not a
\* key of the coordinates.json this run has written, and no row of the
\* combined table carries it.
C1_FailedGeocodeExcluded ==
    /\ pc \in {"combine", "visualize", "done"} =>
         \A a \in noMatch : a \notin Index(coordsFile.rows)
    /\ pc \in {"visualize", "done"} =>
         \A a \in noMatch : a \notin Index(result_df)

\* C2: no step passes to the geocoding service an address that is a key of
\* coordinates.json, and no step removes a key from coordinates.json.
C2_CacheMonotone ==
    [][/\ queried' # queried =>
            \A k \in DOMAIN queried' : queried'[k] \notin Index(coordsFile.rows)
       /\ Index(coordsFile.rows) \subseteq Index(coordsFile'.rows)
       /\ coordsFile.exists => coordsFile'.exists]_vars

\* a run that found a priced address in the cache, fetched another one, and
\* has written the enlarged cache
C2_Witness ==
    /\ pc = "combine"
    /\ queried # <<>>
    /\ \E a \in Index(prices_df) : a \in Index(coordsFile.rows) /\ a \notin Range(queried)

\* C3: when get_coordinates returns, each address was queried once if it is
\* in the price table and not a key of the loaded cache, and not at all
\* otherwise.
C3_OneQueryPerAddress ==
    pc = "save_coordinates" =>
        \A a \in Addr :
            Count(a, queried) =
                IF a \in Index(prices_df) \ Index(LoadCoordinates) THEN 1 ELSE 0

\* C4: every row get_coordinates returns has a non-null lat and a non-null
\* lng, whatever coordinates.json held.
C4_ReturnedCoordinatesNonNull ==
    pc = "save_coordinates" =>
        \A k \in DOMAIN coordinates_df :
            coordinates_df[k].lat # NaN /\ coordinates_df[k].lng # NaN

\* C5: an address whose query returned no match in the previous run and is
\* still in the price table is queried again by this run's get_coordinates.
C5_FailedGeocodeRetried ==
    pc = "save_coordinates" =>
        \A a \in failedBefore : a \in Index(prices_df) => a \in Range(queried)

\* C6: once prices.json exists, get_prices returns its rows, no step issues
\* an HTTP request, and the file keeps its content.
C6_PriceCacheIdempotent ==
    [][pricesFile.exists =>
         /\ pricesFile' = pricesFile
         /\ httpRequests' <= httpRequests
         /\ pc = "get_prices" => (pc' = "save_prices" /\ prices_df' = pricesFile.rows)]_vars

\* a run that started with prices.json, went through to the end and issued
\* no request
C6_Witness ==
    /\ pc = "done"
    /\ pricesFile.exists
    /\ prices_df = pricesFile.rows
    /\ httpRequests = 0

C8_JoinComplete ==
    pc \in {"visualize", "done"} =>
        \A k \in DOMAIN result_df :
            /\ result_df[k].lat # NaN
            /\ result_df[k].lng # NaN
            /\ result_df[k].buildingaddress # NaN

\* the district districts.json gives a region, null when it gives none
DistrictOf(region) ==
    IF \E k \in DOMAIN districts_json : region \in Range(districts_json[k].regions)
      THEN districts_json[CHOOSE k \in DOMAIN districts_json :
                              region \in Range(districts_json[k].regions)].district
      ELSE NaN

\* C9: every price row whose address has a coordinate record is in the
\* combined table, with its region's district, or a null district when the
\* region is unmapped; no such row is dropped.
C9_LeftJoinOnRegion ==
    pc = "visualize" =>
        /\ \A k \in DOMAIN prices_df :
             prices_df[k].buildingaddress \in Index(coordinates_df) =>
                 \E j \in DOMAIN result_df :
                     /\ result_df[j].buildingaddress = prices_df[k].buildingaddress
                     /\ result_df[j].region = prices_df[k].region
                     /\ result_df[j].district = DistrictOf(prices_df[k].region)
        /\ \A j \in DOMAIN result_df :
             result_df[j].district = DistrictOf(result_df[j].region)
        /\ Len(result_df) =
             Len(SelectSeq(prices_df, LAMBDA p : p.buildingaddress \in Index(coordinates_df)))

\* a combined table holding a row with a district and a row without one
C9_Witness ==
    /\ pc = "visualize"
    /\ \E j \in DOMAIN result_df : result_df[j].district = NaN
    /\ \E j \in DOMAIN result_df : result_df[j].district # NaN

\* C10: applied to an empty price table and an empty coordinate table,
\* combine_and_format_data returns an empty table and raises nothing.
C10_EmptyInputNoError ==
    (prices_df = <<>> /\ coordinates_df = <<>> /\ pc # "combine") =>
        (pc = "visualize" /\ err = "" /\ result_df = <<>>)

====
